---- MODULE Spec2Model ----
(***************************************************************************)
(* A model of the fluent HTTP request builder of request.go: the builder   *)
(* values and their configuration calls (with Go's slice semantics for the *)
(* query and header pair lists), request materialization, the execution    *)
(* pipeline of the terminal operations, and error classification.          *)
(*                                                                         *)
(* request.go holds two variants of the package (lines 1-261 and lines     *)
(* 262-543).  The variable "variant" says which one is built: 1 has no     *)
(* JSON, Read or ReadString and its New keeps an embedded query string.    *)
(*                                                                         *)
(* Text (URLs, bodies, error messages) is a sequence of one-character      *)
(* strings, except where only equality of whole strings matters.           *)
(***************************************************************************)
EXTENDS Integers, Sequences, FiniteSets, TLC

VARIABLES
    variant,   \* which variant of the package is built (1 or 2)
    heap,      \* backing arrays of the pair slices: array id -> slots
    reqs,      \* the Request values the caller holds, oldest first
    args,      \* the constructor call made, if any: <<>> or <<call>>
    mreq,      \* the outcome of Request.request on reqs[1], once called
    chain,     \* the configuration inputs of the builder being executed
    op,        \* the running terminal operation
    body,      \* the response body stream
    cancelled  \* "no", or where the operation stood when the context was cancelled

vars == <<variant, heap, reqs, args, mreq, chain, op, body, cancelled>>

Nil == "nil"

----------------------------------------------------------------------------
(* Bounds.                                                                 *)

\* Query calls chained before the caller keeps the builder (SpecBuild).
MaxChain == 3
\* Request values the caller holds at once (SpecBuild).
MaxReqs == 3
\* Length of the URL text given to New (SpecURL).
MaxUrlLen == 3
\* Query calls chained on the builder in SpecURL.
MaxQuery == 1
\* Pairs in the list given to injectPairs (SpecInject).
MaxPairs == 2
\* Bytes by which an error body may exceed maxErrLen (SpecExec).
MaxOver == 1
\* Reads the caller makes through the handle Open returned (SpecExec).
MaxReads == 1

maxErrLen == 4096

----------------------------------------------------------------------------
(* Text helpers.                                                           *)

\* All texts over alphabet A of length at most n.
RECURSIVE Texts(_, _)
Texts(A, n) ==
    IF n = 0 THEN {<<>>}
    ELSE LET shorter == Texts(A, n - 1)
         IN shorter \cup {Append(s, c) : s \in {x \in shorter : Len(x) = n - 1}, c \in A}

\* strings.HasPrefix(s, p)
HasPrefix(s, p) == Len(s) >= Len(p) /\ SubSeq(s, 1, Len(p)) = p

\* strings.Index(s, c) for a single character, 0 when absent (1-based otherwise).
Index(s, c) ==
    IF \E i \in 1..Len(s) : s[i] = c
    THEN CHOOSE i \in 1..Len(s) : s[i] = c /\ \A j \in 1..(i - 1) : s[j] # c
    ELSE 0

\* strings.SplitN(s, c, 2)[0]
SplitFirst(s, c) == IF Index(s, c) = 0 THEN s ELSE SubSeq(s, 1, Index(s, c) - 1)

\* the part after the first c, empty when c is absent
AfterFirst(s, c) == IF Index(s, c) = 0 THEN <<>> ELSE SubSeq(s, Index(s, c) + 1, Len(s))

\* The text of the string literals the model needs.
T(str) ==
    CASE str = "" -> <<>>
      [] str = "0" -> <<"0">>
      [] str = "false" -> <<"f", "a", "l", "s", "e">>
      [] str = "true" -> <<"t", "r", "u", "e">>
      [] str = "<nil>" -> <<"<", "n", "i", "l", ">">>
      [] str = "..." -> <<".", ".", ".">>
      [] str = ": " -> <<":", " ">>
      [] str = "x" -> <<"x">>
      [] str = "User-Agent" -> <<"U", "s", "e", "r", "-", "A", "g", "e", "n", "t">>
      [] str = "Authorization" ->
            <<"A", "u", "t", "h", "o", "r", "i", "z", "a", "t", "i", "o", "n">>
      [] str = "Content-Length" ->
            <<"C", "o", "n", "t", "e", "n", "t", "-", "L", "e", "n", "g", "t", "h">>
      [] str = "Content-Type" ->
            <<"C", "o", "n", "t", "e", "n", "t", "-", "T", "y", "p", "e">>
      [] str = "http://localhost" ->
            <<"h", "t", "t", "p", ":", "/", "/", "l", "o", "c", "a", "l", "h", "o", "s", "t">>

LocalPrefix == T("http://localhost")

Digits == <<"0", "1", "2", "3", "4", "5", "6", "7", "8", "9">>

\* strconv.Itoa, and fmt.Sprint of an int.
RECURSIVE Itoa(_)
Itoa(n) ==
    IF n < 0 THEN <<"-">> \o Itoa(-n)
    ELSE IF n < 10 THEN <<Digits[n + 1]>>
    ELSE Itoa(n \div 10) \o <<Digits[(n % 10) + 1]>>

\* The loosely typed values a pair or a JSON body is given.
StrV(s) == [t |-> "string", s |-> s, n |-> 0, b |-> FALSE]
BytesV(s) == [t |-> "bytes", s |-> s, n |-> 0, b |-> FALSE]
IntV(n) == [t |-> "int", s |-> <<>>, n |-> n, b |-> FALSE]
BoolV(b) == [t |-> "bool", s |-> <<>>, n |-> 0, b |-> b]
NilValue == [t |-> "nil", s |-> <<>>, n |-> 0, b |-> FALSE]
Chan == [t |-> "chan", s |-> <<>>, n |-> 0, b |-> FALSE]

----------------------------------------------------------------------------
(* Slices: a slice header names a backing array, a length and a capacity.  *)

NilSlice == [arr |-> 0, len |-> 0, cap |-> 0]
ZeroPair == [key |-> <<>>, values |-> <<>>]

\* The elements a slice header gives access to.
Elems(h, s) == IF s.len = 0 THEN <<>> ELSE SubSeq(h[s.arr], 1, s.len)

\* The capacity of the array append allocates when the old one is full.
GrowCap(old, needed) == IF needed > 2 * old THEN needed ELSE 2 * old

\* append(s, p): in place when the backing array has room, else a copy in a
\* new array.
GoAppendCopy(h, s, p) ==
    LET c == GrowCap(s.cap, s.len + 1)
        a == [i \in 1..c |-> IF i <= s.len THEN h[s.arr][i]
                             ELSE IF i = s.len + 1 THEN p ELSE ZeroPair]
    IN [heap |-> Append(h, a),
        slice |-> [arr |-> Len(h) + 1, len |-> s.len + 1, cap |-> c]]

GoAppend(h, s, p) ==
    IF s.len < s.cap
    THEN [heap |-> [h EXCEPT ![s.arr][s.len + 1] = p],
          slice |-> [s EXCEPT !.len = s.len + 1]]
    ELSE GoAppendCopy(h, s, p)

----------------------------------------------------------------------------
(* The builder: constructors and configuration calls.                      *)

\* New of variant 1 (lines 41-50): the URL keeps an embedded query string.
NewV1(method, url) ==
    [client |-> "DefaultClient", ctx |-> Nil, method |-> method,
     url |-> IF HasPrefix(url, <<"/">>) \/ HasPrefix(url, <<":">>)
             THEN LocalPrefix \o url ELSE url,
     query |-> NilSlice, header |-> NilSlice, user |-> Nil, limiter |-> Nil,
     body |-> <<>>, bodyMime |-> ""]

\* New of variant 2 (lines 301-310).
NewV2(method, url) ==
    [client |-> "DefaultClient", ctx |-> Nil, method |-> method,
     url |-> SplitFirst(IF HasPrefix(url, <<"/">>) \/ HasPrefix(url, <<":">>)
                        THEN LocalPrefix \o url ELSE url, "?"),
     query |-> NilSlice, header |-> NilSlice, user |-> Nil, limiter |-> Nil,
     body |-> <<>>, bodyMime |-> ""]

New(v, method, url) == IF v = 1 THEN NewV1(method, url) ELSE NewV2(method, url)

Get(v, url) == New(v, "GET", url)
Post(v, url) == New(v, "POST", url)
Put(v, url) == New(v, "PUT", url)
Delete(v, url) == New(v, "DELETE", url)

Lowers == <<"a", "b", "c", "d", "e", "f", "g", "h", "i", "j", "k", "l", "m",
            "n", "o", "p", "q", "r", "s", "t", "u", "v", "w", "x", "y", "z">>
Uppers == <<"A", "B", "C", "D", "E", "F", "G", "H", "I", "J", "K", "L", "M",
            "N", "O", "P", "Q", "R", "S", "T", "U", "V", "W", "X", "Y", "Z">>
Upper(c) == IF \E i \in 1..26 : Lowers[i] = c
            THEN Uppers[CHOOSE i \in 1..26 : Lowers[i] = c] ELSE c
Lower(c) == IF \E i \in 1..26 : Uppers[i] = c
            THEN Lowers[CHOOSE i \in 1..26 : Uppers[i] = c] ELSE c

\* http.CanonicalHeaderKey for a key of letters, digits and "-": the first
\* letter and every letter after a "-" in upper case, the others in lower case.
CanonicalHeaderKey(k) ==
    [i \in 1..Len(k) |-> IF i = 1 \/ k[i - 1] = "-" THEN Upper(k[i]) ELSE Lower(k[i])]

\* A configuration call works on a copy t of the receiver and returns it;
\* the result is the new value and the heap after the call.
Query(h, t, key, vs) ==
    LET a == GoAppend(h, t.query, [key |-> key, values |-> vs])
    IN [heap |-> a.heap, req |-> [t EXCEPT !.query = a.slice]]

Header(h, t, key, vs) ==
    LET a == GoAppend(h, t.header, [key |-> CanonicalHeaderKey(key), values |-> vs])
    IN [heap |-> a.heap, req |-> [t EXCEPT !.header = a.slice]]

UserAgent(h, t, ua) == Header(h, t, T("User-Agent"), <<StrV(ua)>>)

Authorization(h, t, auth) == Header(h, t, T("Authorization"), <<StrV(auth)>>)

User(t, u) == [t EXCEPT !.user = u]

Body(t, data, mime) == [t EXCEPT !.body = data, !.bodyMime = mime]

\* url.Values.Encode for a form given as key-sorted <<key, value>> texts.
RECURSIVE FormEncode(_)
FormEncode(data) ==
    IF data = <<>> THEN <<>>
    ELSE Head(data)[1] \o <<"=">> \o Head(data)[2]
         \o (IF Tail(data) = <<>> THEN <<>> ELSE <<"&">> \o FormEncode(Tail(data)))

Form(t, data) ==
    [t EXCEPT !.body = FormEncode(data),
              !.bodyMime = "application/x-www-form-urlencoded; charset=utf-8"]

\* json.Marshal: a channel has no JSON form, and Marshal then returns no data.
Marshal(v) ==
    CASE v.t = "int" -> [data |-> Itoa(v.n), err |-> Nil]
      [] v.t = "string" -> [data |-> <<"\"">> \o v.s \o <<"\"">>, err |-> Nil]
      [] v.t = "bool" -> [data |-> IF v.b THEN T("true") ELSE T("false"), err |-> Nil]
      [] OTHER -> [data |-> <<>>, err |-> "json: unsupported type"]

JSON(t, v) ==
    [t EXCEPT !.body = Marshal(v).data,
              !.bodyMime = "application/json; charset=utf-8"]

Client(t, c) == [t EXCEPT !.client = c]

Context(t, c) == [t EXCEPT !.ctx = c]

Limit(t, l) == [t EXCEPT !.limiter = l]

----------------------------------------------------------------------------
(* Materialization: Request.request and injectPairs.                       *)

\* url.Values: a map from key to the list of its values.
NoValues == [k \in {} |-> <<>>]
ValuesOf(vals, k) == IF k \in DOMAIN vals THEN vals[k] ELSE <<>>

\* vals[k] = append(vals[k], v)
AddValue(vals, k, v) ==
    [x \in DOMAIN vals \cup {k} |-> IF x = k THEN Append(ValuesOf(vals, k), v) ELSE vals[x]]

\* vals.Set(k, v)
SetValue(vals, k, v) ==
    [x \in DOMAIN vals \cup {k} |-> IF x = k THEN <<v>> ELSE vals[x]]

IsLetter(c) == \E i \in 1..26 : Lowers[i] = c \/ Uppers[i] = c
IsDigit(c) == \E i \in 1..10 : Digits[i] = c

\* The place of the first character of s that is not a letter, 0 if none.
FirstNonLetter(s) ==
    IF \E i \in 1..Len(s) : ~IsLetter(s[i])
    THEN CHOOSE i \in 1..Len(s) : ~IsLetter(s[i]) /\ \A j \in 1..(i - 1) : IsLetter(s[j])
    ELSE 0

\* strings.LastIndex(s, c), 0 when absent.
LastIndex(s, c) ==
    IF \E i \in 1..Len(s) : s[i] = c
    THEN CHOOSE i \in 1..Len(s) : s[i] = c /\ \A j \in (i + 1)..Len(s) : s[j] # c
    ELSE 0

\* url.Parse on texts of letters, digits, "/", ":", "?", "=" and "&": the
\* scheme, the raw query, and whether parsing fails (a colon first, a colon
\* in the first segment of a relative path, a port that is not a number).
UrlParse(raw) ==
    LET n == FirstNonLetter(raw)
        colonFirst == n = 1 /\ raw[1] = ":"
        hasScheme == n > 1 /\ raw[n] = ":"
        afterScheme == IF hasScheme THEN SubSeq(raw, n + 1, Len(raw)) ELSE raw
        rest == SplitFirst(afterScheme, "?")
        rawQuery == AfterFirst(afterScheme, "?")
        rooted == HasPrefix(rest, <<"/">>)
        opaque == ~rooted /\ hasScheme
        colonSegment == ~rooted /\ ~hasScheme
                        /\ Index(SplitFirst(rest, "/"), ":") # 0
        hasAuthority == /\ HasPrefix(rest, <<"/", "/">>)
                        /\ (hasScheme \/ ~HasPrefix(rest, <<"/", "/", "/">>))
        authority == IF hasAuthority
                     THEN SplitFirst(SubSeq(rest, 3, Len(rest)), "/") ELSE <<>>
        port == IF LastIndex(authority, ":") = 0 THEN <<>>
                ELSE SubSeq(authority, LastIndex(authority, ":") + 1, Len(authority))
        badPort == \E i \in 1..Len(port) : ~IsDigit(port[i])
    IN [err |-> IF colonFirst \/ colonSegment \/ (~opaque /\ badPort)
                THEN "parse" ELSE Nil,
        base |-> IF hasScheme THEN SubSeq(raw, 1, n) \o rest ELSE rest,
        rawQuery |-> rawQuery]

\* url.ParseQuery, as URL.Query uses it: the "&"-separated settings of a raw
\* query, each cut at its first "="; an empty setting is skipped.
RECURSIVE ParseQuery(_, _)
ParseQuery(vals, raw) ==
    IF raw = <<>> THEN vals
    ELSE LET setting == SplitFirst(raw, "&")
             more == AfterFirst(raw, "&")
         IN IF setting = <<>> THEN ParseQuery(vals, more)
            ELSE ParseQuery(AddValue(vals, SplitFirst(setting, "="),
                                     AfterFirst(setting, "=")), more)

\* fmt.Sprint of a candidate value.
Sprint(v) ==
    CASE v.t = "string" -> v.s
      [] v.t = "int" -> Itoa(v.n)
      [] v.t = "bool" -> IF v.b THEN T("true") ELSE T("false")
      [] OTHER -> T("<nil>")

\* The inner loop of injectPairs: every candidate overwrites vStr.
RECURSIVE CandidateLoop(_, _)
CandidateLoop(values, vStr) ==
    IF values = <<>> THEN vStr
    ELSE CandidateLoop(Tail(values),
                       IF Head(values).t = "bytes" THEN Head(values).s
                       ELSE Sprint(Head(values)))

Skipped_KeepsZero(vStr) == vStr = T("") \/ vStr = T("false")

\* The values injectPairs skips.
Skipped(vStr) == vStr = T("") \/ vStr = T("0") \/ vStr = T("false")

RECURSIVE injectPairs(_, _)
injectPairs(vals, ps) ==
    IF ps = <<>> THEN vals
    ELSE LET p == Head(ps)
             vStr == CandidateLoop(p.values, T(""))
         IN IF Skipped(vStr) THEN injectPairs(vals, Tail(ps))
            ELSE injectPairs(AddValue(vals, p.key, vStr), Tail(ps))

\* http.NewRequest rejects a method that is not a token.
ValidMethod(m) == m \in {"", "GET", "POST", "PUT", "DELETE", "PATCH"}

\* Request.request: the materialized request, or the error.
request(h, t) ==
    LET u == UrlParse(t.url)
        query == injectPairs(ParseQuery(NoValues, u.rawQuery), Elems(h, t.query))
        injected == injectPairs(NoValues, Elems(h, t.header))
        withLength == IF Len(t.body) > 0
                      THEN SetValue(injected, T("Content-Length"), Itoa(Len(t.body)))
                      ELSE injected
        header == IF t.bodyMime # ""
                  THEN SetValue(withLength, T("Content-Type"), <<t.bodyMime>>)
                  ELSE withLength
    IN IF u.err # Nil THEN [err |-> "parse"]
       ELSE IF ~ValidMethod(t.method) THEN [err |-> "method"]
       ELSE [err |-> Nil, method |-> t.method, base |-> u.base, query |-> query,
             user |-> t.user, ctx |-> t.ctx, header |-> header, body |-> t.body]

----------------------------------------------------------------------------
(* Errors, the response body stream and error classification.              *)

\* An error value: where it arose, the error it wraps (what errors.Is
\* finds), and its text.
Error(kind, wraps, text) == [kind |-> kind, wraps |-> wraps, text |-> text]
NoError == Error("nil", Nil, <<>>)

\* The response body: its bytes, how many were read, whether the end was
\* seen, whether it was closed, and after how many bytes reading fails.
NoFail == -1
NoBody == [present |-> FALSE, data |-> <<>>, pos |-> 0, eof |-> FALSE,
           closed |-> FALSE, failAt |-> NoFail]
NewBody(n, failAt) ==
    [present |-> TRUE, data |-> [i \in 1..n |-> IF i % 2 = 1 THEN "a" ELSE "b"],
     pos |-> 0, eof |-> FALSE, closed |-> FALSE, failAt |-> failAt]

\* res.Body.Close()
BodyClose(b) == [b EXCEPT !.closed = TRUE]

\* io.ReadAll(res.Body): a closed body gives an error, a failing one stops
\* where it fails, and otherwise everything up to the end is read.
BodyReadAll(b) ==
    IF b.closed THEN [body |-> b, data |-> <<>>, err |-> "read on closed body"]
    ELSE IF b.failAt # NoFail /\ b.failAt >= b.pos
    THEN [body |-> [b EXCEPT !.pos = b.failAt],
          data |-> SubSeq(b.data, b.pos + 1, b.failAt), err |-> "unexpected EOF"]
    ELSE [body |-> [b EXCEPT !.pos = Len(b.data), !.eof = TRUE],
          data |-> SubSeq(b.data, b.pos + 1, Len(b.data)), err |-> Nil]

\* res.Status, as the transport sets it: the code and its reason phrase.
StatusLine(code) ==
    CASE code = 400 -> "400 Bad Request"
      [] code = 403 -> "403 Forbidden"
      [] code = 404 -> "404 Not Found"
      [] code = 500 -> "500 Internal Server Error"
      [] code = 502 -> "502 Bad Gateway"
      [] code = 504 -> "504 Gateway Timeout"
      [] OTHER -> "200 OK"

Truncated_AtCap(buf) ==
    IF Len(buf) >= maxErrLen THEN SubSeq(buf, 1, maxErrLen) \o T("...") ELSE buf

\* msg of processErrorResponse (lines 480-485).
Truncated(buf) ==
    IF Len(buf) > maxErrLen THEN SubSeq(buf, 1, maxErrLen) \o T("...") ELSE buf

Classified_NoInvalid(code, status, msg) ==
    CASE code = 404 -> Error("status", "os.ErrNotExist", <<"file does not exist">> \o T(": ") \o msg)
      [] code = 403 -> Error("status", "os.ErrPermission", <<"permission denied">> \o T(": ") \o msg)
      [] code = 504 -> Error("status", "os.ErrDeadlineExceeded", <<"i/o timeout">> \o T(": ") \o msg)
      [] OTHER -> Error("status", Nil, <<status>> \o T(": ") \o msg)

\* The switch of processErrorResponse (lines 486-497).
Classified(code, status, msg) ==
    CASE code = 404 -> Error("status", "os.ErrNotExist", <<"file does not exist">> \o T(": ") \o msg)
      [] code = 403 -> Error("status", "os.ErrPermission", <<"permission denied">> \o T(": ") \o msg)
      [] code = 504 -> Error("status", "os.ErrDeadlineExceeded", <<"i/o timeout">> \o T(": ") \o msg)
      [] code = 502 -> Error("status", "os.ErrInvalid", <<"invalid argument">> \o T(": ") \o msg)
      [] OTHER -> Error("status", Nil, <<status>> \o T(": ") \o msg)

processErrorResponse_LeaksOnReadError(code, status, b) ==
    LET r == BodyReadAll(b)
    IN IF r.err # Nil
       THEN [err |-> Error("errbody", r.err,
                           <<"failed to read error body">> \o T(": ") \o <<r.err>>),
             body |-> r.body]
       ELSE [err |-> Classified(code, status, Truncated(r.data)),
             body |-> BodyClose(r.body)]

\* processErrorResponse: the error, and the body after the deferred Close.
processErrorResponse(code, status, b) ==
    LET r == BodyReadAll(b)
    IN IF r.err # Nil
       THEN [err |-> Error("errbody", r.err,
                           <<"failed to read error body">> \o T(": ") \o <<r.err>>),
             body |-> BodyClose(r.body)]
       ELSE [err |-> Classified(code, status, Truncated(r.data)),
             body |-> BodyClose(r.body)]

----------------------------------------------------------------------------
(* SpecBuild: a caller deriving builder values from the ones it holds.     *)

\* What a caller can observe of a builder value: its fields, with the pair
\* lists read through their slice headers.
Value(h, t) == [t EXCEPT !.query = Elems(h, t.query), !.header = Elems(h, t.header)]

BuildValues == {<<StrV(<<"1">>)>>, <<StrV(<<"2">>)>>}
JSONValues == {IntV(7), Chan}

\* New("GET", "/").Query("x", 1).Query("x", 2)... with n Query calls.
RECURSIVE Chained(_, _)
Chained(v, n) ==
    IF n = 0 THEN [heap |-> <<>>, req |-> New(v, "GET", <<"/">>)]
    ELSE LET c == Chained(v, n - 1)
         IN Query(c.heap, c.req, T("x"), <<IntV(n)>>)

\* No request materialized yet.
Unset == [err |-> "unset"]

Idle == /\ args = <<>> /\ mreq = Unset
        /\ chain = Nil /\ op = Nil /\ body = Nil /\ cancelled = "no"

InitBuild ==
    /\ variant \in {1, 2}
    /\ \E n \in 0..MaxChain :
          /\ heap = Chained(variant, n).heap
          /\ reqs = <<Chained(variant, n).req>>
    /\ Idle

\* The caller keeps the value a configuration call returned.
Keep(h, t) ==
    /\ heap' = h
    /\ reqs' = Append(reqs, t)
    /\ UNCHANGED <<variant, args, mreq, chain, op, body, cancelled>>

CallQuery ==
    \E i \in 1..Len(reqs), vs \in BuildValues :
        /\ Len(reqs) < MaxReqs
        /\ LET r == Query(heap, reqs[i], T("x"), vs) IN Keep(r.heap, r.req)

CallHeader ==
    \E i \in 1..Len(reqs), vs \in BuildValues :
        /\ Len(reqs) < MaxReqs
        /\ LET r == Header(heap, reqs[i], <<"x", "-", "a">>, vs) IN Keep(r.heap, r.req)

CallUserAgent ==
    \E i \in 1..Len(reqs) :
        /\ Len(reqs) < MaxReqs
        /\ LET r == UserAgent(heap, reqs[i], <<"u", "a">>) IN Keep(r.heap, r.req)

CallAuthorization ==
    \E i \in 1..Len(reqs) :
        /\ Len(reqs) < MaxReqs
        /\ LET r == Authorization(heap, reqs[i], <<"t", "k">>) IN Keep(r.heap, r.req)

CallUser ==
    \E i \in 1..Len(reqs) :
        /\ Len(reqs) < MaxReqs
        /\ Keep(heap, User(reqs[i], "user1"))

CallBody ==
    \E i \in 1..Len(reqs) :
        /\ Len(reqs) < MaxReqs
        /\ Keep(heap, Body(reqs[i], <<"b">>, "text/plain"))

CallForm ==
    \E i \in 1..Len(reqs) :
        /\ Len(reqs) < MaxReqs
        /\ Keep(heap, Form(reqs[i], << <<(<<"k">>), (<<"v">>)>> >>))

CallJSON ==
    \E i \in 1..Len(reqs), v \in JSONValues :
        /\ variant = 2
        /\ Len(reqs) < MaxReqs
        /\ Keep(heap, JSON(reqs[i], v))

CallClient ==
    \E i \in 1..Len(reqs) :
        /\ Len(reqs) < MaxReqs
        /\ Keep(heap, Client(reqs[i], "client1"))

CallContext ==
    \E i \in 1..Len(reqs) :
        /\ Len(reqs) < MaxReqs
        /\ Keep(heap, Context(reqs[i], "ctx1"))

CallLimit ==
    \E i \in 1..Len(reqs) :
        /\ Len(reqs) < MaxReqs
        /\ Keep(heap, Limit(reqs[i], "limiter1"))

NextBuild ==
    \/ CallQuery \/ CallHeader \/ CallUserAgent \/ CallAuthorization
    \/ CallUser \/ CallBody \/ CallForm \/ CallJSON
    \/ CallClient \/ CallContext \/ CallLimit

SpecBuild == InitBuild /\ [][NextBuild]_vars

\* C1: no configuration call changes the value of a builder that already
\* exists: in every step, every builder the caller holds (the receiver and
\* every value derived earlier) has the same fields and the same query and
\* header pair lists after the step as before it.
C1_NoMutation ==
    [][\A i \in 1..Len(reqs) : Value(heap', reqs'[i]) = Value(heap, reqs[i])]_vars

----------------------------------------------------------------------------
(* SpecURL and SpecInject: one builder made by a constructor, configured   *)
(* by a chain of calls t = t.Query(...), then materialized.                *)

UrlChars == {"/", ":", "?", "x", "="}
UrlInputs == Texts(UrlChars, MaxUrlLen)

AllCtors == {[ctor |-> "New", method |-> "PATCH"], [ctor |-> "New", method |-> "G T"],
             [ctor |-> "Get", method |-> "GET"], [ctor |-> "Post", method |-> "POST"],
             [ctor |-> "Put", method |-> "PUT"], [ctor |-> "Delete", method |-> "DELETE"]}

UrlQueryInputs == {[key |-> T("x"), values |-> <<StrV(<<"1">>)>>],
                   [key |-> T("x"), values |-> <<IntV(0)>>]}

CandLists == {<<>>, <<StrV(T(""))>>, <<StrV(<<" ">>)>>, <<IntV(0)>>, <<IntV(10)>>,
              <<BoolV(FALSE)>>, <<BoolV(TRUE)>>, <<BytesV(T("0"))>>, <<NilValue>>,
              <<StrV(<<"a">>), IntV(0)>>, <<IntV(0), StrV(<<"a">>)>>}
QueryInputs == {[key |-> k, values |-> vs] : k \in {T("x"), <<"t">>}, vs \in CandLists}
HeaderInputs == {[key |-> k, values |-> vs] :
                    k \in {<<"x", "-", "a">>, <<"X", "-", "b">>},
                    vs \in {<<IntV(0)>>, <<StrV(<<"v">>)>>, <<StrV(<<"w">>), BytesV(<<"z">>)>>}}

InitChain ==
    /\ variant \in {1, 2}
    /\ heap = <<>> /\ reqs = <<>> /\ args = <<>> /\ chain = <<>> /\ mreq = Unset
    /\ op = Nil /\ body = Nil /\ cancelled = "no"

Construct(c, url) ==
    CASE c.ctor = "Get" -> Get(variant, url)
      [] c.ctor = "Post" -> Post(variant, url)
      [] c.ctor = "Put" -> Put(variant, url)
      [] c.ctor = "Delete" -> Delete(variant, url)
      [] OTHER -> New(variant, c.method, url)

CallNew(ctors, urls) ==
    \E c \in ctors, u \in urls :
        /\ args = <<>>
        /\ args' = <<[ctor |-> c.ctor, method |-> c.method, url |-> u]>>
        /\ reqs' = <<Construct(c, u)>>
        /\ UNCHANGED <<variant, heap, mreq, chain, op, body, cancelled>>

ChainQuery(inputs, max) ==
    \E in \in inputs :
        /\ reqs # <<>> /\ mreq = Unset /\ Len(chain) < max
        /\ LET r == Query(heap, reqs[1], in.key, in.values)
           IN heap' = r.heap /\ reqs' = <<r.req>>
        /\ chain' = Append(chain, [call |-> "Query", key |-> in.key, values |-> in.values])
        /\ UNCHANGED <<variant, args, mreq, op, body, cancelled>>

ChainHeader(inputs, max) ==
    \E in \in inputs :
        /\ reqs # <<>> /\ mreq = Unset /\ Len(chain) < max
        /\ LET r == Header(heap, reqs[1], in.key, in.values)
           IN heap' = r.heap /\ reqs' = <<r.req>>
        /\ chain' = Append(chain, [call |-> "Header", key |-> in.key, values |-> in.values])
        /\ UNCHANGED <<variant, args, mreq, op, body, cancelled>>

Materialize ==
    /\ reqs # <<>> /\ mreq = Unset
    /\ mreq' = request(heap, reqs[1])
    /\ UNCHANGED <<variant, heap, reqs, args, chain, op, body, cancelled>>

NextURL ==
    \/ CallNew(AllCtors, UrlInputs)
    \/ ChainQuery(UrlQueryInputs, MaxQuery)
    \/ Materialize

SpecURL == InitChain /\ [][NextURL]_vars

NextInject ==
    \/ CallNew({[ctor |-> "Get", method |-> "GET"]}, {<<"/", "x">>})
    \/ ChainQuery(QueryInputs, MaxPairs)
    \/ ChainHeader(HeaderInputs, MaxPairs)
    \/ Materialize

SpecInject == InitChain /\ [][NextInject]_vars

\* The URL a constructor is to store: "http://localhost" before a leading
\* "/" or ":", and nothing from the first "?" on.
RECURSIVE UpToQuestionMark(_)
UpToQuestionMark(s) ==
    IF s = <<>> \/ Head(s) = "?" THEN <<>> ELSE <<Head(s)>> \o UpToQuestionMark(Tail(s))

Normalized(url) ==
    UpToQuestionMark(IF url # <<>> /\ Head(url) \in {"/", ":"}
                     THEN T("http://localhost") \o url ELSE url)

\* The calls of the chain of one kind, as pairs.
CallsOf(kind) == SelectSeq(chain, LAMBDA c : c.call = kind)

\* C2: the URL stored by New/Get/Post/Put/Delete is the input with
\* "http://localhost" before a leading "/" or ":" and with everything from
\* the first "?" on removed, and a materialized request has a query
\* parameter only under a key that a Query call of the chain gave.
C2_UrlNormalized ==
    /\ reqs # <<>> => reqs[1].url = Normalized(args[1].url)
    /\ mreq.err = Nil =>
          \A k \in DOMAIN mreq.query :
              \E i \in 1..Len(chain) : chain[i].call = "Query" /\ chain[i].key = k

\* The string form of a candidate value.
StringForm(v) == IF v.t = "bytes" THEN v.s ELSE Sprint(v)

\* The effective value of a pair: the string form of its last candidate.
Effective(values) == IF values = <<>> THEN T("") ELSE StringForm(values[Len(values)])

Retained(e) == e \notin {T(""), T("0"), T("false")}

\* The retained effective values of the calls with key k, in call order.
RECURSIVE Emitted(_, _)
Emitted(calls, k) ==
    IF calls = <<>> THEN <<>>
    ELSE (IF Head(calls).key = k /\ Retained(Effective(Head(calls).values))
          THEN <<Effective(Head(calls).values)>> ELSE <<>>)
         \o Emitted(Tail(calls), k)

\* The Header calls of the chain under the key the header map files them.
HeaderCalls ==
    [i \in 1..Len(CallsOf("Header")) |->
        [CallsOf("Header")[i] EXCEPT !.key = CanonicalHeaderKey(@)]]

\* C3: in a materialized request the values under each query key and each
\* header key are exactly the effective values (string form of the last
\* candidate, "" without candidates) of the Query/Header calls with that
\* key, without those equal to "", "0" or "false", in the order of the calls.
C3_InjectIsFilterMap ==
    mreq.err = Nil =>
        /\ \A k \in DOMAIN mreq.query \cup {c.key : c \in QueryInputs} :
              ValuesOf(mreq.query, k) = Emitted(CallsOf("Query"), k)
        /\ \A k \in DOMAIN mreq.header \cup {CanonicalHeaderKey(c.key) : c \in HeaderInputs} :
              ValuesOf(mreq.header, k) = Emitted(HeaderCalls, k)

\* Two Query calls with one key, both retained with different values, the
\* first of them given two candidates.
C3_Witness ==
    /\ mreq.err = Nil /\ Len(chain) = 2
    /\ chain[1].call = "Query" /\ chain[2].call = "Query"
    /\ chain[1].key = chain[2].key
    /\ Len(chain[1].values) = 2
    /\ Len(ValuesOf(mreq.query, chain[1].key)) = 2
    /\ mreq.query[chain[1].key][1] # mreq.query[chain[1].key][2]

----------------------------------------------------------------------------
(* SpecExec: one terminal operation on a configured builder.               *)

\* The file handle of Open wraps the response body: reading and closing the
\* handle read and close the body.
FileRead(b) == BodyReadAll(b)
FileClose(b) == BodyClose(b)

NoOp == [kind |-> "none", pc |-> "idle", mat |-> "none", admit |-> "none",
         dispatches |-> 0, failed |-> {}, status |-> 0, res |-> "none",
         doErr |-> NoError, err |-> NoError, handle |-> "none",
         result |-> "none", reads |-> 0, late |-> "none"]

OpKinds(v) == {"Open", "ReadJSON", "ReadXML", "Stat", "Download", "Err"}
              \cup (IF v = 2 THEN {"Read", "ReadString"} ELSE {})

\* The responses of the transport: a status code, the length of the body
\* and where reading it fails.  Bodies around maxErrLen come with the error
\* statuses, whose bodies processErrorResponse cuts.
Statuses == {200, 399, 400, 403, 404, 502, 504}
BodyLens == {0, 2, maxErrLen - 1, maxErrLen} \cup {maxErrLen + k : k \in 1..MaxOver}
Responses ==
    {[code |-> c, n |-> n, failAt |-> NoFail] :
        c \in {c \in Statuses : c < 400}, n \in {0, 2}}
    \cup {[code |-> c, n |-> n, failAt |-> NoFail] :
        c \in {c \in Statuses : c >= 400}, n \in BodyLens}
    \cup {[code |-> c, n |-> 2, failAt |-> f] : c \in Statuses, f \in {0, 1}}
ExecJSONValues == {Chan}

ExecCtors == {[ctor |-> "Get", method |-> "GET", url |-> <<"/", "x">>],
              [ctor |-> "Get", method |-> "GET", url |-> <<":", "x">>],
              [ctor |-> "New", method |-> "G T", url |-> <<"/", "x">>]}

\* The builder New(...)[.Limit(l)][.Context(ctx)][.JSON(v)] and the calls made.
Configured(c, lim, ctx, js) ==
    LET t0 == Construct(c, c.url)
        t1 == IF lim THEN Limit(t0, "limiter1") ELSE t0
        t2 == IF ctx THEN Context(t1, "ctx1") ELSE t1
    IN IF js = <<>> THEN t2 ELSE JSON(t2, js[1])

ConfigCalls(lim, ctx, js) ==
    (IF lim THEN <<[call |-> "Limit"]>> ELSE <<>>)
    \o (IF ctx THEN <<[call |-> "Context"]>> ELSE <<>>)
    \o (IF js = <<>> THEN <<>> ELSE <<[call |-> "JSON", failed |-> Marshal(js[1]).err # Nil]>>)

InitExec ==
    /\ variant \in {1, 2}
    /\ \E c \in ExecCtors, lim \in BOOLEAN, ctx \in BOOLEAN,
          js \in {<<>>} \cup (IF variant = 2 THEN {<<v>> : v \in ExecJSONValues} ELSE {}) :
          /\ args = <<c>>
          /\ reqs = <<Configured(c, lim, ctx, js)>>
          /\ chain = ConfigCalls(lim, ctx, js)
    /\ heap = <<>> /\ mreq = Unset
    /\ op = NoOp /\ body = NoBody /\ cancelled = "no"

\* Where do goes after t.request() (lines 451-459).
AfterRequest_NoWait(t, m) ==
    IF m.err # Nil THEN "ret" ELSE "dispatch"

AfterRequest(t, m) ==
    IF m.err # Nil THEN "ret"
    ELSE IF t.limiter # Nil THEN "wait" ELSE "dispatch"

WaitContext_OfCaller(t) == t.ctx

\* The context do gives to limiter.Wait (line 456).
WaitContext(t) == "Background"

\* The errors limiter.Wait can return: its own, and the context's once the
\* context it was given is cancelled.
WaitErrors(t) ==
    {"limiter"} \cup (IF WaitContext(t) \notin {"Background", Nil} /\ cancelled # "no"
                      THEN {"canceled"} ELSE {})

\* A terminal operation is called: do materializes the request.
Call ==
    \E kind \in OpKinds(variant) :
        /\ op.pc = "idle"
        /\ LET m == request(heap, reqs[1])
           IN /\ mreq' = m
              /\ op' = [op EXCEPT !.kind = kind,
                                  !.pc = AfterRequest(reqs[1], m),
                                  !.mat = IF m.err # Nil THEN "err" ELSE "ok",
                                  !.failed = IF m.err # Nil THEN {m.err} ELSE {},
                                  !.doErr = IF m.err # Nil THEN Error(m.err, Nil, <<m.err>>)
                                            ELSE NoError]
        /\ UNCHANGED <<variant, heap, reqs, args, chain, body, cancelled>>

\* The caller's context is cancelled.
Cancel ==
    /\ reqs[1].ctx # Nil /\ cancelled = "no" /\ op.pc # "done"
    /\ cancelled' = op.pc
    /\ UNCHANGED <<variant, heap, reqs, args, mreq, chain, op, body>>

LimiterAdmit ==
    /\ op.pc = "wait"
    /\ op' = [op EXCEPT !.pc = "dispatch", !.admit = "ok"]
    /\ UNCHANGED <<variant, heap, reqs, args, mreq, chain, body, cancelled>>

LimiterFail ==
    \E e \in WaitErrors(reqs[1]) :
        /\ op.pc = "wait"
        /\ op' = [op EXCEPT !.pc = "ret", !.admit = "fail", !.failed = @ \cup {"limiter"},
                            !.doErr = Error(e, Nil, <<e>>)]
        /\ UNCHANGED <<variant, heap, reqs, args, mreq, chain, body, cancelled>>

\* client.Do fails: the network, or the cancelled context of the request.
TransportError ==
    /\ op.pc = "dispatch"
    /\ op' = [op EXCEPT !.pc = "ret", !.dispatches = @ + 1, !.failed = @ \cup {"transport"},
                        !.doErr = IF mreq.ctx # Nil /\ cancelled # "no"
                                  THEN Error("canceled", "context.Canceled", <<"context canceled">>)
                                  ELSE Error("transport", Nil, <<"connection refused">>)]
    /\ UNCHANGED <<variant, heap, reqs, args, mreq, chain, body, cancelled>>

\* client.Do returns a response; do returns it, or the error of
\* processErrorResponse when the status is 400 or more (lines 460-467).
TransportRespond ==
    \E resp \in Responses :
        /\ op.pc = "dispatch"
        /\ ~(mreq.ctx # Nil /\ cancelled # "no")
        /\ LET code == resp.code
               b == NewBody(resp.n, resp.failAt)
               e == processErrorResponse(code, StatusLine(code), b)
           IN IF code >= 400
              THEN /\ body' = e.body
                   /\ op' = [op EXCEPT !.pc = "ret", !.dispatches = @ + 1, !.status = code,
                                       !.doErr = e.err,
                                       !.failed = IF e.err.kind = "errbody"
                                                  THEN @ \cup {"errbody"} ELSE @]
              ELSE /\ body' = b
                   /\ op' = [op EXCEPT !.pc = "ret", !.dispatches = @ + 1, !.status = code,
                                       !.res = "live"]
        /\ UNCHANGED <<variant, heap, reqs, args, mreq, chain, cancelled>>

\* The terminal operations after do has returned: the operation's record
\* and the response body when the operation returns.
Returned(o, b) == [op |-> [o EXCEPT !.pc = "done"], body |-> b]
Failed(o, b, e, step) ==
    [op |-> [o EXCEPT !.pc = "done", !.err = e, !.failed = @ \cup step], body |-> b]

Open(o, b) ==
    IF o.doErr # NoError THEN Failed(o, b, o.doErr, {})
    ELSE Returned([o EXCEPT !.handle = "open", !.result = "file"], b)

\* Read: Open, the deferred f.Close(), io.ReadAll(f).
Read(o, b) ==
    LET f == Open(o, b)
        r == FileRead(f.body)
        closed == [f.op EXCEPT !.handle = "closed"]
    IN IF f.op.err # NoError THEN f
       ELSE IF r.err # Nil
       THEN Failed(closed, FileClose(r.body), Error("read", Nil, <<r.err>>), {"read"})
       ELSE Returned([closed EXCEPT !.result = "data"], FileClose(r.body))

ReadString(o, b) ==
    LET r == Read(o, b)
    IN [r EXCEPT !.op.result = IF @ = "data" THEN "string" ELSE @]

\* ReadJSON and ReadXML: Open, the deferred f.Close(), the decoder on f.
Decode(o, b, wellFormed) ==
    LET f == Open(o, b)
        r == FileRead(f.body)
        closed == [f.op EXCEPT !.handle = "closed"]
    IN IF f.op.err # NoError THEN f
       ELSE IF r.err # Nil
       THEN Failed(closed, FileClose(r.body), Error("read", Nil, <<r.err>>), {"read"})
       ELSE IF ~wellFormed
       THEN Failed(closed, FileClose(r.body), Error("decode", Nil, <<"syntax error">>),
                   {"decode"})
       ELSE Returned([closed EXCEPT !.result = "decoded"], FileClose(r.body))

ReadJSON(o, b, wellFormed) == Decode(o, b, wellFormed)

ReadXML(o, b, wellFormed) == Decode(o, b, wellFormed)

Stat_NoClose(o, b) ==
    IF o.doErr # NoError THEN Failed(o, b, o.doErr, {})
    ELSE Returned([o EXCEPT !.result = "info"], b)

Stat(o, b) ==
    IF o.doErr # NoError THEN Failed(o, b, o.doErr, {})
    ELSE Returned([o EXCEPT !.result = "info"], BodyClose(b))

\* Download: Open, the deferred f.Close(), io.ReadAll(f), os.WriteFile.
Download(o, b, written) ==
    LET f == Open(o, b)
        r == FileRead(f.body)
        closed == [f.op EXCEPT !.handle = "closed"]
    IN IF f.op.err # NoError THEN f
       ELSE IF r.err # Nil
       THEN Failed(closed, FileClose(r.body), Error("read", Nil, <<r.err>>), {"read"})
       ELSE IF ~written
       THEN Failed(closed, FileClose(r.body), Error("write", Nil, <<"permission denied">>),
                   {"write"})
       ELSE Returned([closed EXCEPT !.result = "written"], FileClose(r.body))

Err(o, b) ==
    IF o.doErr # NoError THEN Failed(o, b, o.doErr, {})
    ELSE Returned(o, BodyClose(b))

Finish(r) ==
    /\ op' = r.op
    /\ body' = r.body
    /\ UNCHANGED <<variant, heap, reqs, args, mreq, chain, cancelled>>

RunOpen == op.pc = "ret" /\ op.kind = "Open" /\ Finish(Open(op, body))

RunRead == op.pc = "ret" /\ op.kind = "Read" /\ Finish(Read(op, body))

RunReadString == op.pc = "ret" /\ op.kind = "ReadString" /\ Finish(ReadString(op, body))

RunReadJSON ==
    \E wellFormed \in BOOLEAN :
        op.pc = "ret" /\ op.kind = "ReadJSON" /\ Finish(ReadJSON(op, body, wellFormed))

RunReadXML ==
    \E wellFormed \in BOOLEAN :
        op.pc = "ret" /\ op.kind = "ReadXML" /\ Finish(ReadXML(op, body, wellFormed))

RunStat == op.pc = "ret" /\ op.kind = "Stat" /\ Finish(Stat(op, body))

RunDownload ==
    \E written \in BOOLEAN :
        op.pc = "ret" /\ op.kind = "Download" /\ Finish(Download(op, body, written))

RunErr == op.pc = "ret" /\ op.kind = "Err" /\ Finish(Err(op, body))

\* The caller reads from the handle Open returned.
HandleRead ==
    /\ op.pc = "done" /\ op.handle # "none" /\ op.kind = "Open" /\ op.reads < MaxReads
    /\ LET r == FileRead(body)
       IN /\ body' = r.body
          /\ op' = [op EXCEPT !.reads = @ + 1,
                              !.late = IF r.err # Nil THEN "error" ELSE "data"]
    /\ UNCHANGED <<variant, heap, reqs, args, mreq, chain, cancelled>>

\* The caller closes the handle Open returned.
HandleClose ==
    /\ op.pc = "done" /\ op.handle = "open"
    /\ body' = FileClose(body)
    /\ op' = [op EXCEPT !.handle = "closed"]
    /\ UNCHANGED <<variant, heap, reqs, args, mreq, chain, cancelled>>

\* Somebody reads the response body after the operation returned.
LateRead ==
    /\ op.pc = "done" /\ op.kind # "Open" /\ body.present /\ op.late = "none"
    /\ LET r == BodyReadAll(body)
       IN /\ body' = r.body
          /\ op' = [op EXCEPT !.late = IF r.err # Nil THEN "error" ELSE "data"]
    /\ UNCHANGED <<variant, heap, reqs, args, mreq, chain, cancelled>>

NextExec ==
    \/ Call \/ Cancel \/ LimiterAdmit \/ LimiterFail
    \/ TransportError \/ TransportRespond
    \/ RunOpen \/ RunRead \/ RunReadString \/ RunReadJSON \/ RunReadXML
    \/ RunStat \/ RunDownload \/ RunErr
    \/ HandleRead \/ HandleClose \/ LateRead

SpecExec == InitExec /\ [][NextExec]_vars

----------------------------------------------------------------------------
(* The claims about the execution pipeline.                                *)

\* C4: the transport is called at most once, only after materialization
\* succeeded and, with a limiter attached, after the limiter admitted the
\* call; after a materialization error the operation has returned from do
\* with no admission and no dispatch, and after a limiter failure with no
\* dispatch.
C4_OrderAndAbort ==
    LET ready == op.mat = "ok" /\ (reqs[1].limiter # Nil => op.admit = "ok")
    IN /\ op.dispatches <= 1
       /\ (op.dispatches = 1 \/ op.pc = "dispatch") => ready
       /\ op.mat = "err" =>
             op.admit = "none" /\ op.dispatches = 0 /\ op.pc \in {"ret", "done"}
       /\ op.admit = "fail" => op.dispatches = 0 /\ op.pc \in {"ret", "done"}

\* An operation with a limiter attached that was admitted and dispatched.
C4_Witness ==
    op.pc = "done" /\ reqs[1].limiter # Nil /\ op.admit = "ok" /\ op.dispatches = 1

\* The semantic kind the spec gives a status code.
KindOf(code) ==
    CASE code = 404 -> "os.ErrNotExist"
      [] code = 403 -> "os.ErrPermission"
      [] code = 504 -> "os.ErrDeadlineExceeded"
      [] code = 502 -> "os.ErrInvalid"
      [] OTHER -> Nil

Min(a, b) == IF a < b THEN a ELSE b

\* C5: a response with a status below 400 gives no error and the live,
\* unread, open response; one with a status of 400 or more whose body can be
\* read gives an error of kind not-found (404), permission-denied (403),
\* deadline-exceeded (504), invalid (502), and otherwise an error of no kind
\* whose text starts with the status line; in every case the text holds the
\* body, up to maxErrLen bytes of it.
C5_Triage ==
    /\ (op.status # 0 /\ op.status < 400) =>
          /\ op.doErr = NoError /\ op.res = "live"
          /\ op.pc = "ret" => ~body.closed /\ body.pos = 0
    /\ (op.status >= 400 /\ body.failAt = NoFail) =>
          /\ op.res = "none"
          /\ op.doErr.wraps = KindOf(op.status)
          /\ KindOf(op.status) = Nil => Head(op.doErr.text) = StatusLine(op.status)
          /\ LET m == Min(Len(body.data), maxErrLen)
             IN SubSeq(op.doErr.text, 4, 3 + m) = SubSeq(body.data, 1, m)

\* A 502 with a readable body, classified and returned by the operation.
C5_Witness ==
    op.pc = "done" /\ op.status = 502 /\ body.failAt = NoFail /\ Len(body.data) > 0

\* The text of an error after its prefix and ": ".
ExcerptOf(e) == SubSeq(e.text, 4, Len(e.text))

\* C6: the excerpt of an error body of length n is the whole body when
\* n <= 4096 and its first 4096 bytes followed by "..." when n > 4096.
C6_Truncation ==
    (op.status >= 400 /\ body.failAt = NoFail) =>
        LET n == Len(body.data)
        IN /\ n <= 4096 => ExcerptOf(op.doErr) = body.data
           /\ n > 4096 =>
                 ExcerptOf(op.doErr) = SubSeq(body.data, 1, 4096) \o <<".", ".", ".">>

\* An error body of 4097 bytes, one more than the cap.
C6_Witness ==
    op.pc = "done" /\ op.status >= 400 /\ body.failAt = NoFail /\ Len(body.data) = 4097

\* C7 as stated: after every response with a status of 400 or more, also
\* when reading the body failed, the body has been read to its end and
\* closed when do returns the error.
C7_DrainedAndClosed ==
    op.status >= 400 => op.pc \in {"ret", "done"} /\ body.eof /\ body.closed

\* C7 amended: after every response with a status of 400 or more the body
\* has been closed when do returns the error, and it has been read to its
\* end whenever reading it did not fail.
C7_ClosedAndDrainedIfReadable ==
    op.status >= 400 =>
        /\ op.pc \in {"ret", "done"} /\ body.closed
        /\ body.failAt = NoFail => body.eof /\ body.pos = Len(body.data)

\* An error response whose body failed while being read.
C7_Witness ==
    op.pc = "done" /\ op.status >= 400 /\ body.failAt # NoFail /\ op.doErr.kind = "errbody"

\* C8: when a step of the chain or of the operation failed (URL parse, JSON
\* serialization in the JSON setter, limiter wait, dispatch, error-body
\* read, decode, body read, file write) the terminal operation returns an
\* error, and it has not dispatched when the step comes before the dispatch.
C8_NoErrorSwallowed ==
    LET jsonFailed == \E i \in 1..Len(chain) : chain[i].call = "JSON" /\ chain[i].failed
    IN op.pc = "done" =>
          /\ (jsonFailed \/ op.failed # {}) => op.err # NoError
          /\ jsonFailed => op.dispatches = 0

\* C9: when do returned a response (status below 400) and the operation has
\* returned, the body is closed after Stat, Err, Read, ReadString, ReadJSON,
\* ReadXML and Download, so that a later read of it fails; Stat and Err have
\* read nothing of it; after Open the body is unread until the caller reads
\* and is closed exactly when the caller has closed the handle.
C9_BodyLifecycle ==
    (op.pc = "done" /\ op.res = "live") =>
        /\ op.kind # "Open" => body.closed /\ op.late \in {"none", "error"}
        /\ op.kind \in {"Stat", "Err"} => body.pos = 0 /\ ~body.eof
        /\ op.kind = "Open" =>
              /\ body.closed <=> op.handle = "closed"
              /\ op.reads = 0 => body.pos = 0 /\ ~body.eof

\* Stat returned and a later read of the body failed.
C9_Witness ==
    op.pc = "done" /\ op.res = "live" /\ op.kind = "Stat" /\ op.late = "error"

\* C10: a step taken during the admission wait, whether or not the context
\* is cancelled, leaves the operation waiting, admits it, or returns the
\* limiter's own failure; the cancellation is reported only by a dispatch.
C10_WaitIgnoresContext ==
    [][/\ op.pc = "wait" =>
             \/ op'.pc = "wait"
             \/ op'.pc = "dispatch" /\ op'.admit = "ok"
             \/ op'.pc = "ret" /\ op'.doErr.kind = "limiter"
       /\ op'.doErr.kind = "canceled" => op'.dispatches = 1]_vars

\* The context was cancelled before or during the wait, the limiter admitted
\* the call all the same, and the dispatch reported the cancellation.
C10_Witness ==
    /\ cancelled \in {"idle", "wait"} /\ op.admit = "ok"
    /\ op.pc = "done" /\ op.err.kind = "canceled"

====
